---- MODULE Spec2Model ----
(***************************************************************************)
(* dag_gettsim: tax_transfer builds a function table, infers a dependency  *)
(* graph from the functions' argument names, prunes the graph to the       *)
(* requested targets, and executes the remaining nodes in a topological    *)
(* order while collect_garbage deletes results that are no longer needed.  *)
(*                                                                         *)
(* A graph is a record [nodes, edges]; an edge <<d, c>> points from the    *)
(* dependency d to its consumer c.  A function entry is a record           *)
(* [args, impl]: the argument names getfullargspec reports (params is      *)
(* bound by partial and is no argument) and the body that is called.       *)
(* targets is the record [all, names]: all is TRUE for targets = "all".    *)
(***************************************************************************)
EXTENDS Integers, FiniteSets, Sequences, TLC

VARIABLES user_functions, func_dict, data, targets, dag, pc, results, visited_nodes,
          indegree_map, zero_indegree, error, invoked, gc_calls, previous

vars == <<user_functions, func_dict, data, targets, dag, pc, results, visited_nodes,
          indegree_map, zero_indegree, error, invoked, gc_calls, previous>>

(* ------------------------------ bounds --------------------------------- *)
MaxUserFuncs == 1
MaxArgs == 2
MaxTargets == 2

(* ------------------------------ names ---------------------------------- *)
BuiltinNames == {"income_taxes", "wealth_taxes", "benefits", "disposable_income"}
InputNames == {"income", "wealth", "n_children"}
Names == BuiltinNames \cup InputNames \cup {"x"}

(* names a caller's function may take, and names it may declare as arguments *)
UserFuncNames == {"income_taxes", "x"}
UserArgNames == {"income", "disposable_income", "x"}
(* raw inputs the caller may leave out, keys of data beside the raw inputs, *)
(* and names that may be asked for                                          *)
OptionalInputNames == {"n_children"}
ExtraDataNames == {"benefits", "x"}
TargetNames == {"disposable_income", "benefits", "income_taxes", "income", "x"}

DataValue(k) ==
    CASE k = "income" -> 25000
      [] k = "wealth" -> 0
      [] k = "n_children" -> 2
      [] k = "benefits" -> 100
      [] OTHER -> 7

EmptyDict == [k \in {} |-> 0]

RECURSIVE SumOver(_, _)
SumOver(f, keys) ==
    IF keys = {} THEN 0
    ELSE LET k == CHOOSE k \in keys : TRUE
         IN f[k] + SumOver(f, keys \ {k})

(* ------------------------- parameters and functions -------------------- *)
(* get_params with no user parameters; the rates are held in percent *)
get_params ==
    [income_tax |-> 20, wealth_tax |-> 90,
     benefit_per_child |-> 2000, benefit_cutoff |-> 30000]

income_taxes(kw, params) == (params.income_tax * kw["income"]) \div 100

wealth_taxes(kw, params) == (params.wealth_tax * kw["wealth"]) \div 100

benefits(kw, params) ==
    LET raw_benefits == kw["n_children"] * params.benefit_per_child
    IN IF kw["income"] <= params.benefit_cutoff THEN raw_benefits ELSE 0

disposable_income(kw, params) ==
    kw["income"] + kw["wealth"] - kw["income_taxes"] - kw["wealth_taxes"]
        + kw["benefits"]

(* a caller's function: some pure function of its keyword arguments *)
UserFunction(kw, params) == 1 + 3 * SumOver(kw, DOMAIN kw)

BuiltinFunctions ==
    [n \in BuiltinNames |->
        CASE n = "income_taxes" -> [args |-> {"income"}, impl |-> n]
          [] n = "wealth_taxes" -> [args |-> {"wealth"}, impl |-> n]
          [] n = "benefits" -> [args |-> {"income", "n_children"}, impl |-> n]
          [] n = "disposable_income" ->
                [args |-> {"income", "wealth", "income_taxes", "wealth_taxes",
                           "benefits"}, impl |-> n]]

(* calling the entry of func_dict with the gathered keyword arguments *)
Call(entry, kw) ==
    CASE entry.impl = "income_taxes" -> income_taxes(kw, get_params)
      [] entry.impl = "wealth_taxes" -> wealth_taxes(kw, get_params)
      [] entry.impl = "benefits" -> benefits(kw, get_params)
      [] entry.impl = "disposable_income" -> disposable_income(kw, get_params)
      [] OTHER -> UserFunction(kw, get_params)

(* variant: the update runs the other way round and the built-in wins *)
create_function_dict_builtin_wins(user_fns) ==
    [n \in DOMAIN BuiltinFunctions \cup DOMAIN user_fns |->
        IF n \in DOMAIN BuiltinFunctions THEN BuiltinFunctions[n]
        ELSE user_fns[n]]

(* func_dict.update(user_functions): the caller's entry replaces a built-in *)
create_function_dict(user_fns) ==
    [n \in DOMAIN BuiltinFunctions \cup DOMAIN user_fns |->
        IF n \in DOMAIN user_fns THEN user_fns[n]
        ELSE BuiltinFunctions[n]]

(* ------------------------------ graphs --------------------------------- *)
(* nx.DiGraph(dag_dict).reverse(): every key and every argument is a node, *)
(* and an edge leads from each argument to the function that declares it   *)
create_dag(fd) ==
    [nodes |-> DOMAIN fd \cup UNION {fd[n].args : n \in DOMAIN fd},
     edges |-> UNION {{<<a, n>> : a \in fd[n].args} : n \in DOMAIN fd}]

Predecessors(g, n) == {e[1] : e \in {e \in g.edges : e[2] = n}}
Successors(g, n) == {e[2] : e \in {e \in g.edges : e[1] = n}}

RECURSIVE BfsReverse(_, _, _)
BfsReverse(g, frontier, seen) ==
    IF frontier = {} THEN seen
    ELSE LET next == (UNION {Predecessors(g, n) : n \in frontier}) \ seen
         IN BfsReverse(g, next, seen \cup next)

RECURSIVE BfsForward(_, _, _)
BfsForward(g, frontier, seen) ==
    IF frontier = {} THEN seen
    ELSE LET next == (UNION {Successors(g, n) : n \in frontier}) \ seen
         IN BfsForward(g, next, seen \cup next)

(* nx.ancestors / nx.descendants of a node of the graph: the source itself *)
(* is never part of the answer, also on a cycle                            *)
Ancestors(g, source) == BfsReverse(g, {source}, {source}) \ {source}
Descendants(g, source) == BfsForward(g, {source}, {source}) \ {source}

(* ------------------------------ prune_dag ------------------------------ *)
initial_visited(T) == T

(* variants of the pass: following the edges the wrong way, and dropping   *)
(* what was visited before                                                 *)
prune_visit_step_descendants(g, visited) ==
    visited \cup UNION {Descendants(g, node) : node \in visited}

prune_visit_step_forgetful(g, visited) ==
    UNION {Ancestors(g, node) : node \in visited}

(* one pass of the for loop over the nodes visited so far *)
prune_visit_step(g, visited) ==
    visited \cup UNION {Ancestors(g, node) : node \in visited}

(* the while loop: repeat the pass until the number of visited nodes stays *)
RECURSIVE prune_visit(_, _)
prune_visit(g, visited) ==
    LET new == prune_visit_step(g, visited)
    IN IF Cardinality(new) = Cardinality(visited) THEN new
       ELSE prune_visit(g, new)

(* variant: nothing is removed *)
remove_nodes_from_nothing(g, redundant_nodes) == g

remove_nodes_from(g, redundant_nodes) ==
    [nodes |-> g.nodes \ redundant_nodes,
     edges |-> {e \in g.edges : e[1] \notin redundant_nodes
                                /\ e[2] \notin redundant_nodes}]

(* variant: a target that is no node of the graph is skipped silently *)
prune_dag_lenient(g, T) ==
    LET visited_nodes_ == prune_visit(g, initial_visited(T) \cap g.nodes)
        redundant_nodes == g.nodes \ visited_nodes_
    IN [err |-> FALSE, dag |-> remove_nodes_from(g, redundant_nodes)]

(* nx.ancestors raises NetworkXError for a source that is no node of the   *)
(* graph; the first pass of the loop asks for the ancestors of every target *)
prune_dag(g, T) ==
    IF \E node \in initial_visited(T) : node \notin g.nodes
    THEN [err |-> TRUE, dag |-> g]
    ELSE LET visited_nodes_ == prune_visit(g, initial_visited(T))
             redundant_nodes == g.nodes \ visited_nodes_
         IN [err |-> FALSE, dag |-> remove_nodes_from(g, redundant_nodes)]

(* --------------------------- collect_garbage --------------------------- *)
is_obsolete(g, node, visited) ==
    \A descendant \in Descendants(g, node) : descendant \in visited

(* variants: without the guard on the task, and without waiting for the    *)
(* descendants                                                             *)
garbage_unguarded(g, task, visited, T) ==
    {node \in Ancestors(g, task) : is_obsolete(g, node, visited)}

garbage_eager(g, task, visited, T) ==
    {node \in Ancestors(g, task) : task \notin T}

(* the keys the loop over the ancestors of task deletes *)
garbage(g, task, visited, T) ==
    {node \in Ancestors(g, task) : is_obsolete(g, node, visited) /\ task \notin T}

(* del results[node] raises KeyError for a key that is not in results *)
collect_garbage(res, task, visited, T, g) ==
    LET dead == garbage(g, task, visited, T)
    IN [err |-> \E node \in dead : node \notin DOMAIN res,
        results |-> [k \in DOMAIN res \ dead |-> res[k]]]

(* variant: the reclaimer runs for every target set *)
reclaim_always(t) == TRUE

(* line 184 *)
reclaim_enabled(t) == ~t.all

(* ------------------------------ execute_dag ---------------------------- *)
(* variant: a node without predecessors is taken for a supplied input *)
in_results_or_source(task, res) ==
    task \in DOMAIN res \/ Predecessors(dag, task) = {}

(* variant: a registered function takes precedence over a supplied value *)
in_results_unless_function(task, res) ==
    task \in DOMAIN res /\ task \notin DOMAIN func_dict

(* line 175: the task has a value already *)
in_results(task, res) == task \in DOMAIN res

(* variant: a task that is skipped is marked as visited too *)
visited_after_skip_marked(visited, task) == visited \cup {task}

(* line 182 lies inside the if of line 175: a skipped task is not marked *)
visited_after_skip(visited, task) == visited

(* variant: results is the caller's mapping itself, not a copy of it *)
caller_data_aliased(d, res) == res

(* line 173: results is a copy, so the caller's mapping keeps its content *)
(* whatever the executor stores in or deletes from results                *)
caller_data(d, res) == d

_dict_subset(dictionary, keys) == [k \in keys |-> dictionary[k]]

in_degree(g, v) == Cardinality({e \in g.edges : e[2] = v})

(* variant: a node is handed out although predecessors of it are pending *)
TopologicalCandidatesUnordered(zero) == zero \cup DOMAIN indegree_map

(* nx.topological_sort is a generator: it hands out a node whose           *)
(* predecessors have all been handed out, one node per request             *)
TopologicalCandidates(zero) == zero

NoError == [exc |-> "", origin |-> "", name |-> ""]

(* ------------------------------ initial state -------------------------- *)
ArgSets == {A \in SUBSET UserArgNames : Cardinality(A) <= MaxArgs}

UserFunctionTables ==
    UNION {[F -> {[args |-> A, impl |-> "user"] : A \in ArgSets}] :
             F \in {F \in SUBSET UserFuncNames : Cardinality(F) <= MaxUserFuncs}}

DataSets ==
    {[k \in (InputNames \ miss) \cup extra |-> DataValue(k)] :
        miss \in SUBSET OptionalInputNames, extra \in SUBSET ExtraDataNames}

TargetSets ==
    {[all |-> TRUE, names |-> {}]} \cup
    {[all |-> FALSE, names |-> T] :
        T \in {T \in SUBSET TargetNames : Cardinality(T) <= MaxTargets}}

EmptyGraph == [nodes |-> {}, edges |-> {}]

Init ==
    /\ user_functions \in UserFunctionTables
    /\ func_dict = create_function_dict(user_functions)
    /\ data \in DataSets
    /\ targets \in TargetSets
    /\ dag = EmptyGraph
    /\ pc = "create_dag"
    /\ results = EmptyDict
    /\ visited_nodes = {}
    /\ indegree_map = EmptyDict
    /\ zero_indegree = {}
    /\ error = NoError
    /\ invoked = [n \in Names |-> 0]
    /\ gc_calls = 0
    /\ previous = <<>>

(* ------------------------------ tax_transfer --------------------------- *)
CreateDag ==
    /\ pc = "create_dag"
    /\ dag' = create_dag(func_dict)
    /\ pc' = IF targets.all THEN "execute_dag" ELSE "prune_dag"
    /\ UNCHANGED <<user_functions, func_dict, data, targets, results, visited_nodes,
                   indegree_map, zero_indegree, error, invoked, gc_calls,
                   previous>>

PruneDag ==
    /\ pc = "prune_dag"
    /\ LET r == prune_dag(dag, targets.names)
       IN IF r.err
          THEN /\ pc' = "raised"
               /\ \E node \in targets.names \ dag.nodes :
                     error' = [exc |-> "NetworkXError", origin |-> "prune_dag",
                               name |-> node]
               /\ dag' = dag
          ELSE /\ pc' = "execute_dag"
               /\ dag' = r.dag
               /\ error' = error
    /\ UNCHANGED <<user_functions, func_dict, data, targets, results, visited_nodes,
                   indegree_map, zero_indegree, invoked, gc_calls, previous>>

(* lines 172-174: the visited set, the copy of data, the start of the sort *)
ExecuteStart ==
    /\ pc = "execute_dag"
    /\ visited_nodes' = {}
    /\ results' = data
    /\ indegree_map' = [v \in {v \in dag.nodes : in_degree(dag, v) > 0} |->
                            in_degree(dag, v)]
    /\ zero_indegree' = {v \in dag.nodes : in_degree(dag, v) = 0}
    /\ pc' = "loop"
    /\ UNCHANGED <<user_functions, func_dict, data, targets, dag, error, invoked,
                   gc_calls, previous>>

(* the sort hands out task: the in-degrees of its successors drop by one *)
Yield(task) ==
    LET children == Successors(dag, task) \ {task}
        dropped == [v \in DOMAIN indegree_map |->
                       IF v \in children THEN indegree_map[v] - 1
                       ELSE indegree_map[v]]
        freed == {v \in DOMAIN dropped : dropped[v] = 0}
    IN /\ indegree_map' = [v \in DOMAIN dropped \ freed |-> dropped[v]]
       /\ zero_indegree' = (zero_indegree \ {task}) \cup freed

(* line 175 false: the task has a value already *)
TaskInResults ==
    /\ pc = "loop"
    /\ \E task \in TopologicalCandidates(zero_indegree) :
          /\ in_results(task, results)
          /\ Yield(task)
          /\ visited_nodes' = visited_after_skip(visited_nodes, task)
    /\ UNCHANGED <<user_functions, func_dict, data, targets, dag, pc, results,
                   error, invoked, gc_calls, previous>>

(* lines 176-185: call the function of the task, mark it, collect garbage *)
TaskEvaluate ==
    /\ pc = "loop"
    /\ \E task \in TopologicalCandidates(zero_indegree) :
          /\ ~in_results(task, results)
          /\ task \in DOMAIN func_dict
          /\ Yield(task)
          /\ LET keys == Predecessors(dag, task)
             IN IF ~(keys \subseteq DOMAIN results)
                THEN /\ pc' = "raised"
                     /\ \E k \in keys \ DOMAIN results :
                           error' = [exc |-> "KeyError", origin |-> "_dict_subset",
                                     name |-> k]
                     /\ UNCHANGED <<results, visited_nodes, invoked, gc_calls, data>>
                ELSE LET kwargs == _dict_subset(results, keys)
                         stored == [k \in DOMAIN results \cup {task} |->
                                       IF k = task THEN Call(func_dict[task], kwargs)
                                       ELSE results[k]]
                         visited == visited_nodes \cup {task}
                         gc == collect_garbage(stored, task, visited,
                                               targets.names, dag)
                     IN /\ invoked' = [invoked EXCEPT ![task] = @ + 1]
                        /\ visited_nodes' = visited
                        /\ IF reclaim_enabled(targets)
                           THEN /\ gc_calls' = gc_calls + 1
                                /\ results' = gc.results
                                /\ IF gc.err
                                   THEN /\ pc' = "raised"
                                        /\ \E k \in garbage(dag, task, visited,
                                                     targets.names) \ DOMAIN stored :
                                              error' = [exc |-> "KeyError",
                                                        origin |-> "collect_garbage",
                                                        name |-> k]
                                   ELSE /\ pc' = pc
                                        /\ error' = error
                           ELSE /\ gc_calls' = gc_calls
                                /\ results' = stored
                                /\ pc' = pc
                                /\ error' = error
                        /\ data' = caller_data(data, results')
    /\ UNCHANGED <<user_functions, func_dict, targets, dag, previous>>

(* line 180: neither a value nor a function *)
TaskMissing ==
    /\ pc = "loop"
    /\ \E task \in TopologicalCandidates(zero_indegree) :
          /\ ~in_results(task, results)
          /\ task \notin DOMAIN func_dict
          /\ Yield(task)
          /\ error' = [exc |-> "KeyError", origin |-> "execute_dag", name |-> task]
    /\ pc' = "raised"
    /\ UNCHANGED <<user_functions, func_dict, data, targets, dag, results, visited_nodes,
                   invoked, gc_calls, previous>>

(* the sort has handed out every node it can and nodes are left: a cycle *)
SortUnfeasible ==
    /\ pc = "loop"
    /\ zero_indegree = {}
    /\ DOMAIN indegree_map # {}
    /\ pc' = "raised"
    /\ error' = [exc |-> "NetworkXUnfeasible", origin |-> "topological_sort",
                 name |-> ""]
    /\ UNCHANGED <<user_functions, func_dict, data, targets, dag, results, visited_nodes,
                   indegree_map, zero_indegree, invoked, gc_calls, previous>>

(* line 187 and line 49 *)
Return ==
    /\ pc = "loop"
    /\ zero_indegree = {}
    /\ DOMAIN indegree_map = {}
    /\ pc' = "done"
    /\ UNCHANGED <<user_functions, func_dict, data, targets, dag, results, visited_nodes,
                   indegree_map, zero_indegree, error, invoked, gc_calls,
                   previous>>

Next ==
    \/ CreateDag
    \/ PruneDag
    \/ ExecuteStart
    \/ TaskInResults
    \/ TaskEvaluate
    \/ TaskMissing
    \/ SortUnfeasible
    \/ Return

Spec == Init /\ [][Next]_vars

(* ------------------------- a second call of tax_transfer --------------- *)
(* The caller keeps the mapping a run with targets = "all" returned and    *)
(* calls tax_transfer again, same functions and data, asking for S.        *)
SecondRun ==
    /\ pc = "done"
    /\ targets.all
    /\ previous = <<>>
    /\ previous' = <<results>>
    /\ \E S \in {S \in SUBSET dag.nodes : Cardinality(S) <= MaxTargets} :
          targets' = [all |-> FALSE, names |-> S]
    /\ dag' = EmptyGraph
    /\ pc' = "create_dag"
    /\ results' = EmptyDict
    /\ visited_nodes' = {}
    /\ indegree_map' = EmptyDict
    /\ zero_indegree' = {}
    /\ error' = NoError
    /\ invoked' = [n \in Names |-> 0]
    /\ gc_calls' = 0
    /\ UNCHANGED <<user_functions, func_dict, data>>

NextRerun == Next \/ SecondRun

SpecRerun == Init /\ [][NextRerun]_vars

(* The caller calls tax_transfer again with the very same arguments. *)
RepeatRun ==
    /\ pc = "done"
    /\ previous = <<>>
    /\ previous' = <<results>>
    /\ dag' = EmptyGraph
    /\ pc' = "create_dag"
    /\ results' = EmptyDict
    /\ visited_nodes' = {}
    /\ indegree_map' = EmptyDict
    /\ zero_indegree' = {}
    /\ error' = NoError
    /\ invoked' = [n \in Names |-> 0]
    /\ gc_calls' = 0
    /\ UNCHANGED <<user_functions, func_dict, data, targets>>

NextRepeat == Next \/ RepeatRun

SpecRepeat == Init /\ [][NextRepeat]_vars

(* ---------------------- execute_dag called by itself ------------------- *)
(* A caller hands execute_dag the graph create_dag built, not pruned, with *)
(* any target set.                                                         *)
InitExec ==
    /\ user_functions \in UserFunctionTables
    /\ func_dict = create_function_dict(user_functions)
    /\ data \in DataSets
    /\ targets \in TargetSets
    /\ dag = create_dag(func_dict)
    /\ pc = "execute_dag"
    /\ results = EmptyDict
    /\ visited_nodes = {}
    /\ indegree_map = EmptyDict
    /\ zero_indegree = {}
    /\ error = NoError
    /\ invoked = [n \in Names |-> 0]
    /\ gc_calls = 0
    /\ previous = <<>>

(* runs through tax_transfer and runs of execute_dag by itself *)
SpecExec == (Init \/ InitExec) /\ [][Next]_vars

(* ------------------------------ properties ----------------------------- *)
FullDag == create_dag(func_dict)

Explicit == ~targets.all

(* the run got past prune_dag *)
Executing ==
    \/ pc \in {"execute_dag", "loop", "done"}
    \/ pc = "raised" /\ error.origin # "prune_dag"

HasCycle(g) ==
    \E n \in g.nodes :
        \/ n \in Successors(g, n)
        \/ \E m \in Descendants(g, n) : n \in Descendants(g, m)

NothingInvoked == \A n \in Names : invoked[n] = 0

(* the value of a node as the functions define it: the input where data    *)
(* has one, else the function of the node applied to its arguments' values *)
RECURSIVE ValueOf(_)
ValueOf(n) ==
    IF n \in DOMAIN data THEN data[n]
    ELSE Call(func_dict[n], [k \in func_dict[n].args |-> ValueOf(k)])

(* C1: a completed run with an explicit target set T returns a mapping     *)
(* whose key set is exactly T.                                             *)
C1_ReturnsExactlyTargets ==
    (pc = "done" /\ Explicit) => DOMAIN results = targets.names

(* C2: a completed run with explicit targets, all nodes of the graph,      *)
(* returns every target, with the input's value or the value of its        *)
(* function applied to its dependencies' values.                           *)
C2_TargetsReturned ==
    (pc = "done" /\ Explicit /\ targets.names \subseteq FullDag.nodes) =>
        \A t \in targets.names :
            /\ t \in DOMAIN results
            /\ results[t] = ValueOf(t)

C2_Witness ==
    /\ pc = "done"
    /\ Explicit
    /\ \E t \in targets.names : t \notin DOMAIN data /\ invoked[t] = 1
    /\ \E t \in targets.names : t \in DOMAIN data

(* C3: with targets = "all" collect_garbage is never called, the result    *)
(* set never loses a key during the run, and the returned keys are the     *)
(* keys of data and all nodes of the unpruned graph.                       *)
C3_AllKeepsEverything ==
    /\ [](targets.all => gc_calls = 0)
    /\ [][(targets.all /\ pc = "loop") =>
             DOMAIN results \subseteq DOMAIN results']_vars
    /\ []((targets.all /\ pc = "done") =>
             DOMAIN results = DOMAIN data \cup FullDag.nodes)

C3_Witness ==
    /\ pc = "done"
    /\ targets.all
    /\ \E n \in Names : invoked[n] > 0
    /\ DOMAIN data \ FullDag.nodes # {}

(* C4: a function table with a cyclic dependency never completes a run     *)
(* and never has a function invoked.                                       *)
C4_CycleRaisesBeforeAnyCall ==
    HasCycle(FullDag) => (pc # "done" /\ NothingInvoked)

(* C5: gathering the arguments of a function never fails: when a function  *)
(* is invoked, the value of every predecessor is in the result set.        *)
C5_DependenciesPresent ==
    ~(pc = "raised" /\ error.origin = "_dict_subset")

C5_Witness ==
    /\ pc = "loop"
    /\ Explicit
    /\ \E c \in Names :
          /\ invoked[c] = 1
          /\ \E d \in Predecessors(dag, c) : invoked[d] = 1
          /\ \E d \in Predecessors(dag, c) : d \in DOMAIN data

(* C6: a run over a graph with a node that has neither a value in data nor *)
(* a function ends in the KeyError of line 180 naming such a node, and     *)
(* returns nothing.                                                        *)
Unresolved == {n \in dag.nodes : n \notin DOMAIN data /\ n \notin DOMAIN func_dict}

C6_MissingDependencyRaised ==
    (Executing /\ Unresolved # {}) =>
        /\ pc # "done"
        /\ pc = "raised" =>
              /\ error.exc = "KeyError"
              /\ error.origin = "execute_dag"
              /\ error.name \in Unresolved

C6_Witness ==
    /\ pc = "raised"
    /\ error.origin = "execute_dag"
    /\ Explicit
    /\ dag.nodes # FullDag.nodes
    /\ \E n \in Names : invoked[n] > 0

(* C7 as stated: a target that is no node of the graph does not make       *)
(* prune_dag fail.                                                         *)
AbsentTargets == targets.names \ FullDag.nodes

C8_AllThenRestrictEqualsDirect ==
    (pc = "done" /\ Len(previous) = 1) =>
        \A n \in targets.names :
            /\ n \in DOMAIN results
            /\ n \in DOMAIN previous[1]
            /\ results[n] = previous[1][n]

C8_Witness ==
    /\ pc = "done"
    /\ Len(previous) = 1
    /\ Cardinality(targets.names) = 2
    /\ \E n \in targets.names : invoked[n] = 1
    /\ DOMAIN results # DOMAIN previous[1]

(* C9: the pruned graph is the subgraph induced by the targets and the     *)
(* nodes from which a target can be reached.                               *)
InducedSubgraph(g, keep) ==
    [nodes |-> keep,
     edges |-> {e \in g.edges : e[1] \in keep /\ e[2] \in keep}]

C9_PruneKeepsTargetsAndAncestors ==
    (Executing /\ Explicit) =>
        dag = InducedSubgraph(FullDag,
                  {n \in FullDag.nodes :
                      n \in targets.names
                      \/ Descendants(FullDag, n) \cap targets.names # {}})

C9_Witness ==
    /\ pc = "execute_dag"
    /\ Explicit
    /\ dag.nodes # FullDag.nodes
    /\ dag.nodes # targets.names
    /\ dag.edges # {}

(* C10: pruning the pruned graph to the same targets changes nothing.      *)
C10_PruneIdempotent ==
    (Executing /\ Explicit) =>
        prune_dag(dag, targets.names) = [err |-> FALSE, dag |-> dag]

C10_Witness ==
    /\ pc = "execute_dag"
    /\ Explicit
    /\ targets.names # {}
    /\ dag.nodes # FullDag.nodes
    /\ dag.nodes # targets.names

(* C11: a second run with the same data, functions and targets returns     *)
(* the mapping the first run returned, whatever order either run followed. *)
(* Under SpecRepeat previous holds the first run's mapping.                *)
C11_SameArgumentsSameMapping ==
    (pc = "done" /\ Len(previous) = 1) => results = previous[1]

C11_Witness ==
    /\ pc = "done"
    /\ Len(previous) = 1
    /\ Explicit
    /\ gc_calls >= 3
    /\ FullDag.nodes # dag.nodes

(* C12: func_dict holds the caller's function under every name the caller  *)
(* supplied and the built-in under every other built-in name; the value    *)
(* computed under an overridden name is the caller's function's value.     *)
Overridden == DOMAIN user_functions \cap BuiltinNames

C12_CallerFunctionWins ==
    /\ DOMAIN func_dict = BuiltinNames \cup DOMAIN user_functions
    /\ \A n \in DOMAIN user_functions : func_dict[n] = user_functions[n]
    /\ \A n \in BuiltinNames \ DOMAIN user_functions :
          func_dict[n] = BuiltinFunctions[n]
    /\ \A n \in Overridden :
          /\ invoked[n] <= 1
          /\ (pc = "done" /\ invoked[n] = 1) =>
                /\ n \in DOMAIN results
                /\ results[n] =
                      UserFunction([k \in user_functions[n].args |-> ValueOf(k)],
                                   get_params)

C12_Witness ==
    /\ pc = "done"
    /\ \E n \in Overridden :
          /\ invoked[n] = 1
          /\ user_functions[n].args # {}
          /\ results[n] # Call(BuiltinFunctions[n],
                               [k \in BuiltinFunctions[n].args |-> ValueOf(k)])

C14_ReclaimedOnlyWhenDescendantsDone ==
    /\ [][pc = "loop" =>
            \A k \in DOMAIN results \ DOMAIN results' :
                Descendants(dag, k) \subseteq visited_nodes']_vars
    /\ [](error.origin \notin {"_dict_subset", "collect_garbage"})

C14_Witness ==
    /\ pc = "loop"
    /\ Explicit
    /\ DOMAIN data \ DOMAIN results # {}
    /\ \E n \in zero_indegree : n \in DOMAIN func_dict /\ n \notin DOMAIN results

(* C15: no call of collect_garbage deletes the value of a target.          *)
C15_TargetNeverEvicted ==
    [][(pc = "loop" /\ Explicit) =>
          (DOMAIN results \ DOMAIN results') \cap targets.names = {}]_vars

(* C16: in a run through tax_transfer with explicit targets no key ever    *)
(* leaves the result set, and the returned keys are the keys of data and   *)
(* the nodes of the pruned graph.                                          *)
C16_PrunedRunDeletesNothing ==
    /\ [][(pc = "loop" /\ Explicit) =>
             DOMAIN results \subseteq DOMAIN results']_vars
    /\ []((pc = "done" /\ Explicit) =>
             DOMAIN results = DOMAIN data \cup dag.nodes)

C16_Witness ==
    /\ pc = "done"
    /\ Explicit
    /\ gc_calls >= 2
    /\ \E n \in dag.nodes \ targets.names :
          invoked[n] = 1 /\ is_obsolete(dag, n, visited_nodes)

(* C17: the function of a node that is a key of data is never invoked, and *)
(* while the key is in the result set its value is the value data gave.    *)
C17_SuppliedNeverEvaluated ==
    \A n \in DOMAIN data :
        /\ invoked[n] = 0
        /\ n \in DOMAIN results => results[n] = data[n]

(* the sort has handed the node out *)
Processed(n) ==
    /\ pc \in {"loop", "done"}
    /\ n \in dag.nodes
    /\ n \notin zero_indegree
    /\ n \notin DOMAIN indegree_map

C17_Witness ==
    \E n \in DOMAIN data \cap DOMAIN func_dict :
        /\ Processed(n)
        /\ n \in DOMAIN results
        /\ \E m \in Successors(dag, n) : invoked[m] = 1

(* C18: in a completed run every function of the executed graph whose node *)
(* is no key of data was invoked once, and nothing else was invoked; a     *)
(* function pruned away is never invoked.                                  *)
C18_InvokedExactlyOnce ==
    /\ pc = "done" =>
          \A n \in Names :
              invoked[n] = IF /\ n \in dag.nodes
                              /\ n \in DOMAIN func_dict
                              /\ n \notin DOMAIN data
                           THEN 1 ELSE 0
    /\ Executing => \A n \in Names \ dag.nodes : invoked[n] = 0

C18_Witness ==
    /\ pc = "done"
    /\ Explicit
    /\ DOMAIN func_dict \ dag.nodes # {}
    /\ \E n \in dag.nodes : invoked[n] = 1
    /\ \E n \in dag.nodes \cap DOMAIN func_dict : n \in DOMAIN data

(* C19 as stated: every node the executor has processed is in the visited  *)
(* set.                                                                    *)
C19_ProcessedIsVisited ==
    \A n \in Names : Processed(n) => n \in visited_nodes

(* C19 amended: the visited set holds exactly the nodes evaluated by their *)
(* function, never a node found in data; a node with a descendant found in *)
(* data is never reclaimed.                                                *)
C19_VisitedIsEvaluated ==
    /\ [](pc \in {"loop", "done"} =>
             /\ visited_nodes = {n \in Names : invoked[n] > 0}
             /\ visited_nodes \cap DOMAIN data = {})
    /\ [][pc = "loop" =>
            \A k \in DOMAIN results \ DOMAIN results' :
                Descendants(dag, k) \cap DOMAIN data = {}]_vars

C19_Witness ==
    /\ pc = "done"
    /\ Explicit
    /\ \E n \in DOMAIN data : Processed(n) /\ Descendants(dag, n) # {}
                              /\ n \notin DOMAIN results
    /\ \E n \in DOMAIN data \cap DOMAIN results :
          /\ Descendants(dag, n) # {}
          /\ \A d \in Descendants(dag, n) : Processed(d)
          /\ Descendants(dag, n) \cap DOMAIN data # {}

(* C20: a node without value and function fails the run with the KeyError  *)
(* of line 180 also when every consumer of it has its value from data.     *)
Unneeded == {n \in Unresolved : Successors(dag, n) \subseteq DOMAIN data}

C20_UnneededSourceStillRaises ==
    (Executing /\ Unneeded # {} /\ Unresolved = Unneeded) =>
        /\ pc # "done"
        /\ pc = "raised" =>
              /\ error.exc = "KeyError"
              /\ error.origin = "execute_dag"
              /\ error.name \in Unneeded

C20_Witness ==
    /\ pc = "raised"
    /\ error.origin = "execute_dag"
    /\ Unneeded # {}
    /\ Unresolved = Unneeded
    /\ error.name \in Unneeded
    /\ targets.names \cap Successors(dag, error.name) # {}

====
